---- MODULE Spec2Model ----
(***************************************************************************)
(* Model of the fft-drawing crate: the Complex value type (complex.rs),    *)
(* the transform engine butterfly / fft / dft (fft.rs), path loading       *)
(* (path.rs) and the Epicycle model with get_coordinate_for (epicycle.rs). *)
(*                                                                         *)
(* Numbers.  The program computes in f64.  The model computes in the real  *)
(* field Q(sqrt 2): a number is a record [a, b, d] standing for            *)
(* (a + b*sqrt(2)) / d, kept in lowest terms with d > 0, and d = 0 is the  *)
(* IEEE NaN.  Every sine and cosine the program takes for transform        *)
(* lengths 1, 2, 4, 8 and for times that are multiples of pi/4 lies in     *)
(* this field, so the model yields the real-number value of each program   *)
(* expression; f64 rounding (about 1e-16 relative) is not modelled, and a  *)
(* zero of the model is the f64 +0.0.                                      *)
(***************************************************************************)
EXTENDS Integers, Sequences, FiniteSets, TLC

-----------------------------------------------------------------------------
(* Integer helpers *)

Abs(n) == IF n < 0 THEN -n ELSE n

RECURSIVE GCD(_, _)
GCD(m, n) == IF n = 0 THEN m ELSE GCD(n, m % n)

\* sign of a + b*sqrt(2) for integers a, b: when the signs differ, multiply by
\* the positive unit 1 + sqrt(2); that shrinks both parts, so no product is needed.
RECURSIVE SignAB(_, _)
SignAB(a, b) ==
    IF a = 0 /\ b = 0 THEN 0
    ELSE IF a >= 0 /\ b >= 0 THEN 1
    ELSE IF a <= 0 /\ b <= 0 THEN -1
    ELSE SignAB(a + 2 * b, a + b)

-----------------------------------------------------------------------------
(* f64 values as elements of Q(sqrt 2), with NaN *)

NaN == [a |-> 0, b |-> 0, d |-> 0]

IsNaN(x) == x.d = 0

\* (a + b*sqrt 2) / d in lowest terms; 0/0 is NaN
R(a, b, d) ==
    IF d = 0 THEN NaN
    ELSE LET g == GCD(GCD(Abs(a), Abs(b)), Abs(d))
             s == IF d < 0 THEN -1 ELSE 1
         IN [a |-> s * (a \div g), b |-> s * (b \div g), d |-> s * (d \div g)]

Int2R(n) == [a |-> n, b |-> 0, d |-> 1]

Zero == Int2R(0)

One == Int2R(1)

RAdd(x, y) ==
    IF IsNaN(x) \/ IsNaN(y) THEN NaN
    ELSE R(x.a * y.d + y.a * x.d, x.b * y.d + y.b * x.d, x.d * y.d)

RNeg(x) == [a |-> -x.a, b |-> -x.b, d |-> x.d]

RSub(x, y) == RAdd(x, RNeg(y))

RMul(x, y) ==
    IF IsNaN(x) \/ IsNaN(y) THEN NaN
    ELSE R(x.a * y.a + 2 * x.b * y.b, x.a * y.b + x.b * y.a, x.d * y.d)

\* x / y; a zero divisor occurs in the program only as 0.0 / 0.0, which is NaN
RDiv(x, y) ==
    IF IsNaN(x) \/ IsNaN(y) THEN NaN
    ELSE LET n == y.a * y.a - 2 * y.b * y.b
         IN R((x.a * y.a - 2 * x.b * y.b) * y.d, (x.b * y.a - x.a * y.b) * y.d, x.d * n)

RSign(x) == SignAB(x.a, x.b)

\* the f64 comparisons: every comparison with NaN is false
RLess(x, y) == ~IsNaN(x) /\ ~IsNaN(y) /\ RSign(RSub(x, y)) < 0

RLeq(x, y) == ~IsNaN(x) /\ ~IsNaN(y) /\ RSign(RSub(x, y)) <= 0

RAbs(x) == IF RSign(x) < 0 THEN RNeg(x) ELSE x

\* x == 0.0, which is false of NaN
IsZero(x) == ~IsNaN(x) /\ RSign(x) = 0

\* x * 100^n < 1 for x >= 0, scaled two decimal digits at a time so that no
\* product leaves the 32-bit integers
RECURSIVE BelowPow100(_, _)
BelowPow100(x, n) ==
    IF ~RLess(x, One) THEN FALSE
    ELSE IF n = 0 THEN TRUE
    ELSE BelowPow100(RMul(x, Int2R(100)), n - 1)

\* |x| <= 10^-k
RECURSIVE WithinPow10(_, _)
WithinPow10(x, k) ==
    IF k = 0 THEN RLeq(RAbs(x), One)
    ELSE IF ~RLeq(RAbs(x), One) THEN FALSE
    ELSE WithinPow10(RMul(x, Int2R(10)), k - 1)

\* the square root of a non-negative integer, when it lies in Q(sqrt 2)
HasSqrt(m) == \E k \in 0..m : k * k = m \/ 2 * k * k = m

SqrtInt(m) ==
    IF \E k \in 0..m : k * k = m
    THEN Int2R(CHOOSE k \in 0..m : k * k = m)
    ELSE R(0, CHOOSE k \in 0..m : 2 * k * k = m, 1)

-----------------------------------------------------------------------------
(* complex.rs *)

Complex_new(re, im) == [re |-> re, im |-> im]

\* Complex::new on integer literals
Cx(re, im) == Complex_new(Int2R(re), Int2R(im))

add(first, second) ==
    Complex_new(RAdd(first.re, second.re), RAdd(first.im, second.im))

minus(from, with) ==
    Complex_new(RSub(from.re, with.re), RSub(from.im, with.im))

multiply(first, second) ==
    LET new_re == RSub(RMul(first.re, second.re), RMul(first.im, second.im))
        new_im == RAdd(RMul(first.re, second.im), RMul(first.im, second.re))
    IN Complex_new(new_re, new_im)

\* amplitude() is sqrt(re*re + im*im); the model keeps the radicand, and
\* compares amplitudes by comparing radicands (sqrt is increasing, sqrt(NaN) is NaN)
amplitude_sq(c) == RAdd(RMul(c.re, c.re), RMul(c.im, c.im))

\* the zero with the sign bit set, -0.0: it compares equal to 0.0 and differs
\* from it only as a divisor. Sums and products that come out zero are taken
\* as 0.0.
NegZero == [a |-> 0, b |-> 0, d |-> -1]

IsNegZero(x) == x.d < 0

Finite(v) == [kind |-> "finite", v |-> v]

PlusInf == [kind |-> "inf", v |-> Zero]

MinusInf == [kind |-> "-inf", v |-> Zero]

NoNumber == [kind |-> "nan", v |-> NaN]

\* self.im / self.re as f64 does it: a non-zero value over a zero is an
\* infinity whose sign is the product of the two signs, 0.0 / 0.0 is NaN
Quotient(x, y) ==
    IF IsNaN(x) \/ IsNaN(y) THEN NoNumber
    ELSE IF RSign(y) /= 0 THEN Finite(RDiv(x, y))
    ELSE IF RSign(x) = 0 THEN NoNumber
    ELSE IF (RSign(x) > 0) = IsNegZero(y) THEN MinusInf
    ELSE PlusInf

\* An angle is kept as its tangent and the sign of its cosine (side): side 1
\* with a finite tangent is the open right half turn, the infinite tangents
\* are the quarter turns +pi/2 and -pi/2, side -1 is the left half turn.
NoAngle == [kind |-> "nan", tan |-> NoNumber, side |-> 0]

\* angular::atan: the angle in [-pi/2, pi/2] with the given tangent
atan(q) ==
    IF q.kind = "nan" THEN NoAngle ELSE [kind |-> "angle", tan |-> q, side |-> 1]

\* a changed phase: the quadrant taken from the sign of re, as atan2 does
phase_quadrant_aware(c) ==
    LET q == Quotient(c.im, c.re)
    IN IF q.kind = "nan" THEN NoAngle
       ELSE [kind |-> "angle", tan |-> q, side |-> IF RSign(c.re) < 0 THEN -1 ELSE 1]

phase(c) == atan(Quotient(c.im, c.re))

-----------------------------------------------------------------------------
(* fft.rs: butterfly *)

\* the u32 operators &, |, & ! and >> 1 on naturals
RECURSIVE BitAnd(_, _)
BitAnd(x, y) ==
    IF x = 0 \/ y = 0 THEN 0
    ELSE 2 * BitAnd(x \div 2, y \div 2) + (x % 2) * (y % 2)

RECURSIVE BitOr(_, _)
BitOr(x, y) ==
    IF x = 0 THEN y
    ELSE IF y = 0 THEN x
    ELSE 2 * BitOr(x \div 2, y \div 2) + (IF x % 2 = 1 \/ y % 2 = 1 THEN 1 ELSE 0)

BitAndNot(x, y) == x - BitAnd(x, y)

Shr1(x) == x \div 2

\* data.swap(i, j), indices 0-based as in the source
swap(data, i, j) ==
    [k \in 1..Len(data) |->
        IF k = i + 1 THEN data[j + 1] ELSE IF k = j + 1 THEN data[i + 1] ELSE data[k]]

\* a changed butterfly: `if` in place of `while`, one bit cleared at most
clear_loop_once(target, mask) ==
    IF BitAnd(target, mask) /= 0
    THEN [target |-> BitAndNot(target, mask), mask |-> Shr1(mask)]
    ELSE [target |-> target, mask |-> mask]

\* the while loop of butterfly: clear the set bits of target from the top
RECURSIVE clear_loop(_, _)
clear_loop(target, mask) ==
    IF BitAnd(target, mask) /= 0
    THEN clear_loop(BitAndNot(target, mask), Shr1(mask))
    ELSE [target |-> target, mask |-> mask]

\* one pass of the body after the swap: the next value of target
advance_target(target, len) ==
    LET r == clear_loop(target, Shr1(len))
    IN BitOr(r.target, r.mask)

\* a changed butterfly: the swap is made whenever the two indices differ, so
\* each pair is swapped once from either side
RECURSIVE butterfly_swap_always(_, _, _)
butterfly_swap_always(data, position, target) ==
    IF position >= Len(data) THEN data
    ELSE LET swapped == IF target /= position THEN swap(data, position, target) ELSE data
         IN butterfly_swap_always(swapped, position + 1,
                                  advance_target(target, Len(data)))

RECURSIVE butterfly_from(_, _, _)
butterfly_from(data, position, target) ==
    IF position >= Len(data) THEN data
    ELSE LET swapped == IF target > position THEN swap(data, position, target) ELSE data
         IN butterfly_from(swapped, position + 1, advance_target(target, Len(data)))

butterfly(data) == butterfly_from(data, 0, 0)

\* the standard bit-reversal table: reverse the low `bits` bits of i
RECURSIVE Pow2(_)
Pow2(k) == IF k = 0 THEN 1 ELSE 2 * Pow2(k - 1)

RECURSIVE Log2(_)
Log2(n) == IF n <= 1 THEN 0 ELSE 1 + Log2(n \div 2)

IsPowerOfTwo(n) == n >= 1 /\ Pow2(Log2(n)) = n

RECURSIVE bitrev(_, _)
bitrev(i, bits) ==
    IF bits = 0 THEN 0
    ELSE (i % 2) * Pow2(bits - 1) + bitrev(i \div 2, bits - 1)

-----------------------------------------------------------------------------
(* fft.rs: fft and dft *)

\* Angles are counted in eighths of a turn (pi/4): these are the angles whose
\* sine and cosine lie in Q(sqrt 2).
HalfSqrt2 == R(0, 1, 2)

Cos8(u) ==
    LET m == u % 8
    IN IF m = 0 THEN One
       ELSE IF m = 1 \/ m = 7 THEN HalfSqrt2
       ELSE IF m = 2 \/ m = 6 THEN Zero
       ELSE IF m = 3 \/ m = 5 THEN RNeg(HalfSqrt2)
       ELSE RNeg(One)

Sin8(u) == Cos8(u - 2)

\* the lengths whose stage angles pi/step and output angles 2*pi*k*n/len are
\* multiples of pi/4 for every step < len
TableLengths == {0, 1, 2, 4, 8}

\* delta = -1.0 * PI / step, in eighths of a turn (step is 1, 2 or 4)
delta_of(step) == -(4 \div step)

\* temp_sin * temp_sin with temp_sin = (delta * 0.5).sin(): the half angle is
\* outside the table for step 4, its squared sine (1 - cos(delta)) / 2 is not
temp_sin_sq(step) == RDiv(RSub(One, Cos8(delta_of(step))), Int2R(2))

\* a changed fft: delta without its sign in the imaginary part
factor_multiplier_positive(step) ==
    Complex_new(RMul(Int2R(-2), temp_sin_sq(step)), Sin8(-delta_of(step)))

factor_multiplier_of(step) ==
    Complex_new(RMul(Int2R(-2), temp_sin_sq(step)), Sin8(delta_of(step)))

\* a butterfly on the indices pair and matched, noted in the count of the
\* current stage
touch(uses, pair, matched) ==
    [uses EXCEPT ![Len(uses)] = [@ EXCEPT ![pair + 1] = @ + 1, ![matched + 1] = @ + 1]]

\* a changed inner loop: the range ends where matched would leave the buffer,
\* (group..data.len() - step), so that no index is out of bounds
RECURSIVE pair_loop_within(_, _, _, _)
pair_loop_within(st, step, pair, factor) ==
    IF st.panic \/ pair + step >= Len(st.data) THEN st
    ELSE LET matched == pair + step
             product == multiply(factor, st.data[matched + 1])
             lower == minus(st.data[pair + 1], product)
             upper == add(st.data[pair + 1], product)
             d2 == [st.data EXCEPT ![matched + 1] = lower, ![pair + 1] = upper]
         IN pair_loop_within([st EXCEPT !.data = d2, !.pairs = @ + 1,
                                        !.uses = touch(@, pair, matched)],
                             step, pair + 2 * step, factor)

\* the inner loop: pair = group, group + jump, ... below len; an index at or
\* beyond len aborts the call (panic), as data[matched] does, before anything
\* of that butterfly is written
RECURSIVE pair_loop(_, _, _, _)
pair_loop(st, step, pair, factor) ==
    IF st.panic \/ pair >= Len(st.data) THEN st
    ELSE LET matched == pair + step
         IN IF matched >= Len(st.data)
            THEN [st EXCEPT !.panic = TRUE, !.out = matched]
            ELSE LET product == multiply(factor, st.data[matched + 1])
                     lower == minus(st.data[pair + 1], product)
                     upper == add(st.data[pair + 1], product)
                     d2 == [st.data EXCEPT ![matched + 1] = lower, ![pair + 1] = upper]
                 IN pair_loop([st EXCEPT !.data = d2, !.pairs = @ + 1,
                                         !.uses = touch(@, pair, matched)],
                              step, pair + 2 * step, factor)

RECURSIVE group_loop(_, _, _, _)
group_loop(st, step, group, factor) ==
    IF st.panic \/ group >= step THEN st
    ELSE group_loop(pair_loop(st, step, group, factor), step, group + 1,
                    add(multiply(factor_multiplier_of(step), factor), factor))

\* a stage begins: its step is noted and its index counts start at zero
begin_stage(st, step) ==
    [st EXCEPT !.steps = Append(@, step),
               !.uses = Append(@, [i \in 1..Len(st.data) |-> 0])]

\* a changed outer loop: while step <= length
RECURSIVE stage_loop_to_length(_, _)
stage_loop_to_length(st, step) ==
    IF st.panic \/ step > Len(st.data) THEN st
    ELSE LET done == group_loop(begin_stage(st, step), step, 0, Cx(1, 0))
         IN stage_loop_to_length(
                IF done.panic THEN done ELSE [done EXCEPT !.stages = @ + 1], 2 * step)

RECURSIVE stage_loop(_, _)
stage_loop(st, step) ==
    IF st.panic \/ step >= Len(st.data) THEN st
    ELSE LET done == group_loop(begin_stage(st, step), step, 0, Cx(1, 0))
         IN stage_loop(IF done.panic THEN done ELSE [done EXCEPT !.stages = @ + 1],
                       2 * step)

\* the whole call: the buffer it leaves, whether it aborted and on which
\* index, how many stages and butterflies it completed, the step of every
\* stage it began and how often each stage used each index
fft_run(data) ==
    stage_loop([data |-> butterfly(data), panic |-> FALSE, out |-> -1,
                stages |-> 0, pairs |-> 0, steps |-> <<>>, uses |-> <<>>], 1)

fft(data) == fft_run(data).data

RECURSIVE dft_sum(_, _, _, _)
dft_sum(data, term, n, sum) ==
    IF n >= Len(data) THEN sum
    ELSE LET angle == (8 * term * n) \div Len(data)
             exp == Complex_new(Cos8(angle), RMul(Int2R(-1), Sin8(angle)))
             mult == multiply(data[n + 1], exp)
         IN dft_sum(data, term, n + 1, add(sum, mult))

dft(data) == [t \in 1..Len(data) |-> dft_sum(data, t - 1, 0, Cx(0, 0))]

-----------------------------------------------------------------------------
(* path.rs *)

\* a changed check: the length != 0 test dropped
assert_without_zero_test(length) ==
    IF length = 0 \/ BitAnd(length, length - 1) = 0
    THEN [kind |-> "ok"]
    ELSE [kind |-> "WrongPathLengthError", wrong_length |-> length]

\* !((length != 0) && ((length & (length - 1)) == 0)): && evaluates
\* length - 1 only for length != 0, so the u64 subtraction never underflows
assert_power_of_2_length(length) ==
    IF length /= 0
    THEN IF BitAnd(length, length - 1) = 0
         THEN [kind |-> "ok"]
         ELSE [kind |-> "WrongPathLengthError", wrong_length |-> length]
    ELSE [kind |-> "WrongPathLengthError", wrong_length |-> length]

RECURSIVE fold_min(_, _, _)
fold_min(xs, i, m) ==
    IF i > Len(xs) THEN m
    ELSE fold_min(xs, i + 1, IF RLess(xs[i], m) THEN xs[i] ELSE m)

RECURSIVE fold_max(_, _, _)
fold_max(xs, i, m) ==
    IF i > Len(xs) THEN m
    ELSE fold_max(xs, i + 1, IF RLess(m, xs[i]) THEN xs[i] ELSE m)

\* the bounding box of a non-empty path: every sample lies between f64::MIN
\* and f64::MAX, so the scan ends on the least and greatest component
bounding_box(data) ==
    LET res == [i \in 1..Len(data) |-> data[i].re]
        ims == [i \in 1..Len(data) |-> data[i].im]
    IN [min_x |-> fold_min(res, 2, res[1]), max_x |-> fold_max(res, 2, res[1]),
        min_y |-> fold_min(ims, 2, ims[1]), max_y |-> fold_max(ims, 2, ims[1])]

\* (max_x - min_x)^2 + (max_y - min_y)^2, the radicand of scaling_factor
diagonal_sq(data) ==
    LET bb == bounding_box(data)
        dx == RSub(bb.max_x, bb.min_x)
        dy == RSub(bb.max_y, bb.min_y)
    IN RAdd(RMul(dx, dx), RMul(dy, dy))

\* the paths whose scaling_factor lies in Q(sqrt 2)
normalizable(data) ==
    IF Len(data) = 0 THEN TRUE
    ELSE LET q == diagonal_sq(data) IN q.d = 1 /\ q.b = 0 /\ HasSqrt(q.a)

\* translate by the minima, divide by the diagonal; a path of identical
\* points has diagonal 0.0 and every component becomes 0.0 / 0.0
normalize(data) ==
    IF Len(data) = 0 THEN data
    ELSE LET bb == bounding_box(data)
             scaling_factor == SqrtInt(diagonal_sq(data).a)
         IN [i \in 1..Len(data) |->
                Complex_new(RDiv(RSub(data[i].re, bb.min_x), scaling_factor),
                            RDiv(RSub(data[i].im, bb.min_y), scaling_factor))]

\* Path::new on a file whose lines parse to `samples`: the result and the
\* functions it called, in order
Path_new(samples) ==
    LET checked == assert_power_of_2_length(Len(samples))
    IN IF checked.kind /= "ok"
       THEN [kind |-> "err", error |-> checked, data |-> <<>>,
             calls |-> <<"read_from_file", "assert_power_of_2_length">>]
       ELSE [kind |-> "ok", error |-> checked, data |-> normalize(samples),
             calls |-> <<"read_from_file", "assert_power_of_2_length", "normalize">>]

-----------------------------------------------------------------------------
(* epicycle.rs *)

\* the (Complex, u64) pairs of input.into_iter().zip(0..size)
zip_index(input) == [i \in 1..Len(input) |-> <<input[i], i - 1>>]

\* b.amplitude().partial_cmp(&a.amplitude()) is None when either is NaN
comparable(a, b) == ~IsNaN(amplitude_sq(a[1])) /\ ~IsNaN(amplitude_sq(b[1]))

\* a changed comparator: a.amplitude().partial_cmp(&b.amplitude()), ascending
goes_after_ascending(a, b) == RLess(amplitude_sq(b[1]), amplitude_sq(a[1]))

\* the comparator says Greater: a goes after b, because a's amplitude is smaller
goes_after(a, b) == RLess(amplitude_sq(a[1]), amplitude_sq(b[1]))

\* a changed sort, not stable: an element is placed in front of the elements
\* of equal amplitude already there
RECURSIVE insert_before_ties(_, _)
insert_before_ties(sorted, e) ==
    IF sorted = <<>> THEN <<e>>
    ELSE IF ~goes_after(e, sorted[1]) THEN <<e>> \o sorted
    ELSE <<sorted[1]>> \o insert_before_ties(Tail(sorted), e)

\* sort_by is a stable sort: an element is placed behind every element that
\* the comparator does not put after it
RECURSIVE insert_stable(_, _)
insert_stable(sorted, e) ==
    IF sorted = <<>> THEN <<e>>
    ELSE IF goes_after(sorted[1], e) THEN <<e>> \o sorted
    ELSE <<sorted[1]>> \o insert_stable(Tail(sorted), e)

RECURSIVE sort_from(_, _, _)
sort_from(v, i, sorted) ==
    IF i > Len(v) THEN sorted
    ELSE sort_from(v, i + 1, insert_stable(sorted, v[i]))

sort_by_amplitude(v) == sort_from(v, 1, <<>>)

\* with two or more elements every element is compared at least once, and
\* unwrap() aborts on a None
sort_panics(v) ==
    Len(v) >= 2 /\ \E i \in 1..Len(v) : IsNaN(amplitude_sq(v[i][1]))

\* a changed new: the coefficients sorted first and numbered afterwards
Epicycle_new_numbered_late(input) ==
    LET v == zip_index(input)
        sorted == sort_by_amplitude(v)
    IN IF sort_panics(v)
       THEN [panic |-> TRUE, data |-> <<>>]
       ELSE [panic |-> FALSE,
             data |-> [i \in 1..Len(sorted) |-> <<sorted[i][1], i - 1>>]]

Epicycle_new(input) ==
    LET v == zip_index(input)
    IN IF sort_panics(v)
       THEN [panic |-> TRUE, data |-> <<>>]
       ELSE [panic |-> FALSE, data |-> sort_by_amplitude(v)]

\* fft computes in f64 and leaves residues of about 1e-16 in its results,
\* where this model computes exactly. A residue decides something only where
\* the exact result leaves it open: the sign of a real part that is exactly
\* zero beside a non-zero imaginary part (atan(im / re) is then +pi/2 or -pi/2
\* by the sign of the residue), and the order of two amplitudes that are
\* exactly equal. The model follows from_path on the transforms in which
\* neither occurs. With fewer than four samples every product is with the
\* factor (1, 0), and the sums and differences of two values cancel and tie
\* in f64 exactly where they do so exactly.
rounding_decides_nothing(coefficients) ==
    Len(coefficients) < 4 \/
        /\ \A k \in 1..Len(coefficients) :
              IsZero(coefficients[k].re) => IsZero(coefficients[k].im)
        /\ \A i, j \in 1..Len(coefficients) :
              i < j => ~IsZero(RSub(amplitude_sq(coefficients[i]),
                                    amplitude_sq(coefficients[j])))

\* from_path: fft in place, then new on the buffer
from_path(path_data) ==
    LET run == fft_run(path_data)
    IN IF run.panic THEN [panic |-> TRUE, data |-> <<>>] ELSE Epicycle_new(run.data)

\* radius < 1E-9, on the radicand: amplitude^2 * 100^9 < 1
EpsilonDigits == 9

\* a changed threshold: radius < 2.0
below_epsilon_coarse(c) == RLess(amplitude_sq(c), Int2R(4))

below_epsilon(c) == BelowPow100(amplitude_sq(c), EpsilonDigits)

\* amplitude() * (cos, sin) of phase(). With t = im / re the tangent of the
\* phase, amplitude() is |re| * sqrt(1 + t^2) and (cos, sin) is
\* side * (1, t) / sqrt(1 + t^2), so the vector is side * |re| * (1, t); at the
\* quarter turns it is (0, +-|im|); an undefined phase gives NaN in both
phase_vector(c) ==
    LET phi == phase(c)
        side == Int2R(phi.side)
    IN IF phi.kind = "nan" THEN Complex_new(NaN, NaN)
       ELSE IF phi.tan.kind = "inf" THEN Complex_new(Zero, RAbs(c.im))
       ELSE IF phi.tan.kind = "-inf" THEN Complex_new(Zero, RNeg(RAbs(c.im)))
       ELSE Complex_new(RMul(side, RAbs(c.re)),
                        RMul(side, RMul(RAbs(c.re), phi.tan.v)))

\* radius * ((frequency * time + phase).cos(), (..).sin()), time in eighths
\* of a turn, by the angle-sum formulas
term_of(pair, time) ==
    LET pv == phase_vector(pair[1])
        rot == Complex_new(Cos8(pair[2] * time), Sin8(pair[2] * time))
    IN multiply(rot, pv)

\* a changed loop: no radius check, every term has its phase taken
RECURSIVE sum_terms_unchecked(_, _, _, _, _)
sum_terms_unchecked(data, time, nth, i, coord) ==
    IF i >= nth THEN coord
    ELSE sum_terms_unchecked(data, time, nth, i + 1,
                             add(coord, term_of(data[i + 1], time)))

\* the for loop: i counts from 0, coord is (x_coord, y_coord)
RECURSIVE sum_terms(_, _, _, _, _)
sum_terms(data, time, nth, i, coord) ==
    IF i >= nth THEN coord
    ELSE IF below_epsilon(data[i + 1][1]) THEN coord
    ELSE sum_terms(data, time, nth, i + 1, add(coord, term_of(data[i + 1], time)))

\* the value of i at which the for loop ends: nth, or the first term whose
\* radius is below the threshold
RECURSIVE terms_used(_, _, _)
terms_used(data, nth, i) ==
    IF i >= nth THEN i
    ELSE IF below_epsilon(data[i + 1][1]) THEN i
    ELSE terms_used(data, nth, i + 1)

\* a changed bound check: nth >= self.data.len()
get_coordinate_for_strict(data, time, precision) ==
    LET nth == precision
    IN IF nth >= Len(data)
       THEN [kind |-> "InvalidPrecisionError", time |-> time, precision |-> precision,
             requested_precision |-> nth, max_precision |-> Len(data)]
       ELSE LET c == sum_terms(data, time, nth, 0, Cx(0, 0))
            IN [kind |-> "Ok", time |-> time, precision |-> precision,
                x |-> c.re, y |-> c.im]

get_coordinate_for(data, time, precision) ==
    LET nth == precision
    IN IF nth > Len(data)
       THEN [kind |-> "InvalidPrecisionError", time |-> time, precision |-> precision,
             requested_precision |-> nth, max_precision |-> Len(data)]
       ELSE LET c == sum_terms(data, time, nth, 0, Cx(0, 0))
            IN [kind |-> "Ok", time |-> time, precision |-> precision,
                x |-> c.re, y |-> c.im]

\* a changed query: &mut self, the terms beyond the precision dropped
data_after_query_truncating(data, time, precision) ==
    IF precision < Len(data) THEN SubSeq(data, 1, precision) ELSE data

\* &self: a query leaves the model's pairs as they are
data_after_query(data, time, precision) == data

-----------------------------------------------------------------------------
(* The inputs *)

\* components of the samples of the one- and two-sample paths
MaxVal == 1

\* how far a requested precision may exceed the number of terms
MaxExtra == 1

\* the longest path read from a file and the most coefficients given to new
MaxLen == 8

\* the longest sequence handed to butterfly alone
MaxButterflyLog == 4

\* the longest sequence of a length that is not a power of two handed to fft
MaxAbortLen == 12

Components == (-MaxVal)..MaxVal

Points == {Cx(re, im) : re \in Components, im \in Components}

\* the samples (1,1), (2,2), ..., (n,n) of fft_test and dft_test
Ramp(n) == [i \in 1..n |-> Cx(i, i)]

\* a single non-zero sample v at position k of n
Impulse(n, k, v) == [i \in 1..n |-> IF i = k THEN v ELSE Cx(0, 0)]

\* the coefficients of get_coordinate_test
TestCoefficients == <<Cx(1, 1), Cx(3, 4), Cx(5, 6)>>

ImpulseValues == {Cx(1, 0), Cx(-1, 1), Cx(0, -2)}

ImpulsePositions == {2, 3}

\* paths of four and of eight samples in whose transform no real part is zero
\* beside a non-zero imaginary part and no two amplitudes are equal, bare or
\* normalised; the transform of the second has one coefficient that is zero
ScatteredPaths ==
    {<<Cx(0, 3), Cx(2, 2), Cx(2, 1), Cx(3, -1)>>,
     <<Cx(3, 2), Cx(3, 0), Cx(-1, -1), Cx(-1, 1)>>,
     <<Cx(1, 3), Cx(1, 2), Cx(0, 0), Cx(-2, 1), Cx(3, -2), Cx(2, 3), Cx(1, -2), Cx(-2, 2)>>,
     <<Cx(3, -1), Cx(-2, 2), Cx(1, 0), Cx(2, -2), Cx(-1, 3), Cx(-1, 1), Cx(0, 1), Cx(2, 1)>>}

\* the second sample of the two-sample paths
AnchorPoints == {Cx(0, 0), Cx(1, 1)}

Samples ==
    {Ramp(n) : n \in 0..MaxLen}
    \cup {Ramp(n) : n \in {m \in (MaxLen + 1)..MaxAbortLen : ~IsPowerOfTwo(m)}}
    \cup {Ramp(Pow2(MaxButterflyLog))}
    \cup {TestCoefficients}
    \cup ScatteredPaths
    \cup {<<p>> : p \in Points}
    \cup {<<p, q>> : p \in Points, q \in AnchorPoints}
    \cup {Impulse(n, k, v) : n \in {4, 8}, k \in ImpulsePositions, v \in ImpulseValues}
    \cup {[i \in 1..n |-> Cx(2, -1)] : n \in {2, 4}}

\* the times asked for, in eighths of a turn: 0, pi/4 and pi
Times == {0, 1, 4}

-----------------------------------------------------------------------------
(* The state *)

VARIABLES
    input,      \* the samples (or coefficients) the run starts from
    data,       \* the Vec<Complex> buffer that butterfly and fft work on in place
    applied,    \* the in-place calls made on data so far, in order
    reference,  \* the Vec that dft returned for input, once it was called
    loaded,     \* what Path::new returned inside from_file, once it was called
    epicycle,   \* the Epicycle: how it was built, from which coefficients, its pairs
    answer,     \* what the latest get_coordinate_for returned
    earlier,    \* an answer the caller kept from a call before the latest
    between,    \* whether a different query was made since that answer was kept
    angle,      \* the latest Complex::phase call: its receiver and what it returned
    transform   \* the latest fft call: how it ran (see fft_run), without the buffer

vars == <<input, data, applied, reference, loaded, epicycle, answer, earlier, between, angle,
          transform>>

NoAnswer == [kind |-> "none"]

NoPhase == [kind |-> "none"]

NoTransform == [called |-> FALSE]

\* what a call of fft on a buffer of length len did
Ran(len, run) ==
    [called |-> TRUE, len |-> len, panic |-> run.panic, out |-> run.out,
     stages |-> run.stages, pairs |-> run.pairs, steps |-> run.steps, uses |-> run.uses]

\* the lengths on which every stage that fft begins has its angle pi / step
\* among the eighths of a turn: the powers of two up to 8, and the other
\* lengths below 24, on which the call ends before step 8
FftLengths == TableLengths \cup {n \in 0..MaxAbortLen : ~IsPowerOfTwo(n) /\ n < 24}

NoEpicycle == [state |-> "none", via |-> "none", coefficients |-> <<>>, data |-> <<>>]

Init ==
    /\ input \in Samples
    /\ data = input
    /\ applied = <<>>
    /\ reference = [called |-> FALSE, out |-> <<>>]
    /\ loaded = [kind |-> "none"]
    /\ epicycle = NoEpicycle
    /\ answer = NoAnswer
    /\ earlier = NoAnswer
    /\ between = FALSE
    /\ angle = NoPhase
    /\ transform = NoTransform

Fresh == epicycle.state = "none" /\ loaded.kind = "none" /\ angle.kind = "none"

\* the caller builds an Epicycle from samples it has only read so far
Untouched == Fresh /\ applied = <<>> /\ ~reference.called

\* butterfly(&mut data), at most twice in a row
Butterfly ==
    /\ Fresh
    /\ applied \in {<<>>, <<"butterfly">>}
    /\ data' = butterfly(data)
    /\ applied' = Append(applied, "butterfly")
    /\ UNCHANGED <<input, reference, loaded, epicycle, answer, earlier, between, angle, transform>>

\* fft(&mut data) on the untouched samples, of any length; a call that aborts
\* leaves the buffer as it was at the abort and ends the run
Fft ==
    /\ Fresh
    /\ applied = <<>>
    /\ Len(data) \in FftLengths
    /\ LET run == fft_run(data)
       IN /\ data' = run.data
          /\ applied' = IF run.panic THEN <<"fft", "panic">> ELSE <<"fft">>
          /\ transform' = Ran(Len(data), run)
    /\ UNCHANGED <<input, reference, loaded, epicycle, answer, earlier, between, angle>>

\* dft(input): the argument is moved in, the caller's buffer is not touched
Dft ==
    /\ Fresh
    /\ ~reference.called
    /\ Len(input) \in TableLengths
    /\ reference' = [called |-> TRUE, out |-> dft(input)]
    /\ UNCHANGED <<input, data, applied, loaded, epicycle, answer, earlier, between, angle, transform>>

Built(via, coefficients, made) ==
    IF made.panic
    THEN [state |-> "panic", via |-> via, coefficients |-> coefficients, data |-> <<>>]
    ELSE [state |-> "built", via |-> via, coefficients |-> coefficients, data |-> made.data]

\* Epicycle::new(data) on the given coefficients, as in get_coordinate_test
New ==
    /\ Untouched
    /\ Len(data) <= MaxLen
    /\ epicycle' = Built("new", data, Epicycle_new(data))
    /\ UNCHANGED <<input, data, applied, reference, loaded, answer, earlier, between, angle, transform>>

\* Epicycle::from_path(Path { data })
FromPath ==
    /\ Untouched
    /\ Len(data) \in TableLengths
    /\ IsPowerOfTwo(Len(data))
    /\ rounding_decides_nothing(fft(data))
    /\ data' = fft(data)
    /\ applied' = <<"fft">>
    /\ epicycle' = Built("from_path", fft(data), from_path(data))
    /\ transform' = Ran(Len(data), fft_run(data))
    /\ UNCHANGED <<input, reference, loaded, answer, earlier, between, angle>>

\* Epicycle::from_file on a file holding the samples of input
FromFile ==
    /\ Untouched
    /\ Len(input) <= MaxLen
    /\ IF IsPowerOfTwo(Len(input))
       THEN IF normalizable(input)
            THEN rounding_decides_nothing(fft(normalize(input)))
            ELSE FALSE
       ELSE TRUE
    /\ LET p == Path_new(input)
       IN /\ loaded' = p
          /\ IF p.kind = "ok"
             THEN /\ data' = fft(p.data)
                  /\ applied' = <<"normalize", "fft">>
                  /\ epicycle' = Built("from_file", fft(p.data), from_path(p.data))
                  /\ transform' = Ran(Len(p.data), fft_run(p.data))
             ELSE UNCHANGED <<data, applied, epicycle, transform>>
    /\ UNCHANGED <<input, reference, answer, earlier, between, angle>>

\* the queries whose first answer the caller keeps: time pi, and a precision
\* that uses every term or asks for more
IsProbe(a) == a.kind /= "none" /\ a.time = 4 /\ a.precision >= Len(epicycle.data)

SameQuery(a, b) ==
    a.kind /= "none" /\ b.kind /= "none" /\ a.time = b.time /\ a.precision = b.precision

\* epicycle.get_coordinate_for(time, precision)
GetCoordinateFor ==
    /\ epicycle.state = "built"
    /\ \E time \in Times, precision \in 0..(Len(epicycle.data) + MaxExtra) :
          /\ answer' = get_coordinate_for(epicycle.data, time, precision)
          /\ epicycle' = [epicycle EXCEPT
                             !.data = data_after_query(epicycle.data, time, precision)]
    /\ between' = (between \/ (earlier.kind /= "none" /\ ~SameQuery(answer, earlier)))
    /\ earlier' = IF earlier.kind = "none" /\ IsProbe(answer) THEN answer ELSE earlier
    /\ UNCHANGED <<input, data, applied, reference, loaded, angle, transform>>

\* the receivers of phase(): the samples read, and the two values on the
\* imaginary axis whose real part is -0.0
ZeroRealPoints == {Complex_new(NegZero, Int2R(1)), Complex_new(NegZero, Int2R(-1))}

\* c.phase() on one of the values, as in phase_test
Phase ==
    /\ Untouched
    /\ \E c \in {input[k] : k \in 1..Len(input)} \cup ZeroRealPoints :
          angle' = [kind |-> "called", of |-> c, phase |-> phase(c)]
    /\ UNCHANGED <<input, data, applied, reference, loaded, epicycle, answer, earlier, between, transform>>

Next ==
    \/ Phase
    \/ Butterfly
    \/ Fft
    \/ Dft
    \/ New
    \/ FromPath
    \/ FromFile
    \/ GetCoordinateFor

Spec == Init /\ [][Next]_vars

-----------------------------------------------------------------------------
(* The claims *)

\* the absolute tolerance 1E-6 of assert_complex_eq in fft_test and dft_test
ToleranceDigits == 6

\* the largest sample count given to assert_power_of_2_length on its own
MaxCount == 64

Close(x, y) == WithinPow10(RSub(x, y), ToleranceDigits)

CloseTo(c, re, im) == Close(c.re, re) /\ Close(c.im, im)

\* a decimal literal with six places, n / 10^6
Micro(n) == R(n, 0, 1000000)

Amp(pair) == amplitude_sq(pair[1])

\* C1: after one butterfly on a sequence of power-of-two length n, the element
\* that was at index i is at index bitrev(i), the reversal of the log2(n) low
\* bits of i; for n = 8 the elements of 0..7 are at 0,4,2,6,1,5,3,7.
C1_ButterflyIsBitReversal ==
    (applied = <<"butterfly">> /\ IsPowerOfTwo(Len(input))) =>
        /\ Len(data) = Len(input)
        /\ \A i \in 0..(Len(input) - 1) :
              data[bitrev(i, Log2(Len(input))) + 1] = input[i + 1]
        /\ Len(input) = 8 =>
              \A i \in 0..7 : data[<<0, 4, 2, 6, 1, 5, 3, 7>>[i + 1] + 1] = input[i + 1]

C1_Witness ==
    /\ applied = <<"butterfly">>
    /\ input = Ramp(8)
    /\ data[2] = input[5]
    /\ data /= input

\* C2: two butterflies in a row on a sequence of power-of-two length leave it
\* in its original order.
C2_ButterflyInvolution ==
    (applied = <<"butterfly", "butterfly">> /\ IsPowerOfTwo(Len(input))) => data = input

C2_Witness ==
    /\ applied = <<"butterfly", "butterfly">>
    /\ Len(input) = Pow2(MaxButterflyLog)
    /\ data = input
    /\ butterfly(input) /= input

\* C3: after fft the buffer holds, in natural order, the coefficients dft
\* returns for the original samples, each component within 1e-6; for the
\* samples (1,1)..(8,8) the first three are (36,36), (-13.656854, 5.656854)
\* and (-8, 0).
C3_FftAgreesWithDft ==
    /\ (applied = <<"fft">> /\ reference.called) =>
          /\ Len(data) = Len(reference.out)
          /\ \A k \in 1..Len(data) :
                CloseTo(data[k], reference.out[k].re, reference.out[k].im)
    /\ (applied = <<"fft">> /\ input = Ramp(8)) =>
          /\ CloseTo(data[1], Int2R(36), Int2R(36))
          /\ CloseTo(data[2], Micro(-13656854), Micro(5656854))
          /\ CloseTo(data[3], Int2R(-8), Int2R(0))

C3_Witness ==
    /\ applied = <<"fft">>
    /\ reference.called
    /\ input = Ramp(8)
    /\ data /= input

\* C4: get_coordinate_for returns InvalidPrecisionError, carrying the requested
\* precision and the number of terms, exactly when the precision exceeds the
\* number of terms; the error holds no coordinate, and every precision from 0
\* to the number of terms returns Ok.
C4_InvalidPrecisionIffTooLarge ==
    answer.kind /= "none" =>
        LET n == Len(epicycle.data)
        IN /\ (answer.kind = "InvalidPrecisionError") <=> (answer.precision > n)
           /\ (answer.kind = "Ok") <=> (answer.precision <= n)
           /\ answer.kind = "InvalidPrecisionError" =>
                 /\ answer.requested_precision = answer.precision
                 /\ answer.max_precision = n
                 /\ "x" \notin DOMAIN answer
                 /\ "y" \notin DOMAIN answer

C4_Witness ==
    /\ answer.kind = "InvalidPrecisionError"
    /\ Len(epicycle.data) = 8
    /\ answer.precision = 9
    /\ earlier.kind = "Ok"
    /\ earlier.precision = 8

\* C5: a built model has as many pairs as the input has samples, and the
\* amplitude never increases from one position to the next.
C5_SortedByDescendingAmplitude ==
    epicycle.state = "built" =>
        /\ Len(epicycle.data) = Len(input)
        /\ Len(epicycle.data) = Len(epicycle.coefficients)
        /\ \A i \in 1..(Len(epicycle.data) - 1) :
              RLeq(Amp(epicycle.data[i + 1]), Amp(epicycle.data[i]))

C5_Witness ==
    /\ epicycle.state = "built"
    /\ epicycle.via = "from_file"
    /\ Len(epicycle.data) = 8
    /\ \E i \in 1..8 : epicycle.data[i][2] /= i - 1
    /\ RLess(Amp(epicycle.data[8]), Amp(epicycle.data[1]))

\* C6: every pair (c, k) of a built model has c = the k-th coefficient given
\* to new, and the indices of the pairs are 0..n-1, each once.
C6_FrequencyIndexPreserved ==
    epicycle.state = "built" =>
        LET n == Len(epicycle.coefficients)
        IN /\ Len(epicycle.data) = n
           /\ \A i \in 1..Len(epicycle.data) :
                 /\ epicycle.data[i][2] \in 0..(n - 1)
                 /\ epicycle.data[i][1] = epicycle.coefficients[epicycle.data[i][2] + 1]
           /\ {epicycle.data[i][2] : i \in 1..Len(epicycle.data)} = 0..(n - 1)
           /\ epicycle.via = "new" => epicycle.coefficients = input

C6_Witness ==
    /\ epicycle.state = "built"
    /\ epicycle.via = "new"
    /\ input = TestCoefficients
    /\ epicycle.data = <<<<Cx(5, 6), 2>>, <<Cx(3, 4), 1>>, <<Cx(1, 1), 0>>>>

\* C7: on the model new builds from (1,1), (3,4), (5,6), get_coordinate_for at
\* time pi yields (-2, 7) with precision 1, (-2, 12) with precision 2 and
\* (-1, 13) with precision 3.
C7_TestCoordinates ==
    (/\ epicycle.state = "built"
     /\ epicycle.via = "new"
     /\ input = TestCoefficients
     /\ answer.kind = "Ok"
     /\ answer.time = 4) =>
        /\ answer.precision = 1 => Close(answer.x, Int2R(-2)) /\ Close(answer.y, Int2R(7))
        /\ answer.precision = 2 => Close(answer.x, Int2R(-2)) /\ Close(answer.y, Int2R(12))
        /\ answer.precision = 3 => Close(answer.x, Int2R(-1)) /\ Close(answer.y, Int2R(13))

\* C8: on the model from_path builds from N samples, get_coordinate_for at
\* time 2*pi*j/N with precision N yields sample j, within 1e-6.
C8_RoundTrip ==
    (/\ epicycle.state = "built"
     /\ epicycle.via = "from_path"
     /\ answer.kind = "Ok"
     /\ Len(input) >= 1
     /\ answer.precision = Len(input)
     /\ (answer.time * Len(input)) % 8 = 0) =>
        LET j == (answer.time * Len(input)) \div 8
        IN CloseTo(input[j + 1], answer.x, answer.y)

\* C9: the loader accepts a sample count exactly when it is a power of two;
\* 0 and every other count get WrongPathLengthError; on the error Path::new
\* has called neither normalize nor, through from_file, fft or new: the
\* samples are as read and no model exists.
C9_OnlyPowersOfTwoLoad ==
    /\ \A n \in 0..MaxCount :
          (assert_power_of_2_length(n).kind = "ok") <=> IsPowerOfTwo(n)
    /\ assert_power_of_2_length(0) = [kind |-> "WrongPathLengthError", wrong_length |-> 0]
    /\ loaded.kind /= "none" =>
          /\ (loaded.kind = "ok") <=> IsPowerOfTwo(Len(input))
          /\ loaded.kind = "err" =>
                /\ loaded.error =
                      [kind |-> "WrongPathLengthError", wrong_length |-> Len(input)]
                /\ loaded.calls = <<"read_from_file", "assert_power_of_2_length">>
                /\ epicycle = NoEpicycle
                /\ applied = <<>>
                /\ data = input
          /\ loaded.kind = "ok" =>
                /\ loaded.calls[Len(loaded.calls)] = "normalize"
                /\ applied = <<"normalize", "fft">>
                /\ epicycle.state /= "none"

C9_Witness ==
    /\ loaded.kind = "err"
    /\ Len(input) = 6
    /\ epicycle.state = "none"

\* C10: the pairs of a built model stay what new made them through every
\* get_coordinate_for, Ok or error, and a later call with the time and
\* precision of an earlier one returns what the earlier one returned.
C10_QueriesLeaveModelUnchanged ==
    /\ epicycle.state = "built" =>
          epicycle.data = Epicycle_new(epicycle.coefficients).data
    /\ SameQuery(answer, earlier) => answer = earlier

C10_Witness ==
    /\ epicycle.state = "built"
    /\ Len(epicycle.data) = 8
    /\ earlier.kind = "Ok"
    /\ SameQuery(answer, earlier)
    /\ between
    /\ answer.x /= Zero

\* the argument of re + i*im, with its quadrant
Argument(c) ==
    [kind |-> "angle", tan |-> Quotient(c.im, c.re),
     side |-> IF RSign(c.re) < 0 THEN -1 ELSE 1]

\* an angle turned by pi: the tangent stays, the cosine changes sign
HalfTurnFrom(a) == [a EXCEPT !.side = -a.side]

\* angular::Angle::quarter(), pi/2
QuarterTurn == [kind |-> "angle", tan |-> PlusInf, side |-> 1]

MinusQuarterTurn == [kind |-> "angle", tan |-> MinusInf, side |-> 1]

\* strictly between -pi/2 and pi/2
InsideRightHalf(p) == p.kind = "angle" /\ p.side = 1 /\ p.tan.kind = "finite"

Negated(c) == Complex_new(RNeg(c.re), RNeg(c.im))

\* what is said of phase() for a receiver c with re /= 0 and result p
PhaseOffTheAxis(c, p) ==
    RSign(c.re) /= 0 =>
        /\ InsideRightHalf(p)
        /\ p.tan = Quotient(c.im, c.re)
        /\ p = phase(Negated(c))
        /\ \A c2 \in Points :
              (RSign(c2.re) /= 0 /\ Quotient(c2.im, c2.re) = Quotient(c.im, c.re))
                  => phase(c2) = p
        /\ (RSign(c.re) < 0 => p = HalfTurnFrom(Argument(c)))

\* C11 (as amended): Complex::phase is the single-argument arctangent of
\* im / re. For re /= 0 it depends only on the ratio, is the same for (re, im)
\* and (-re, -im), lies strictly between -pi/2 and pi/2, and for re < 0 differs
\* from the true argument by pi. For im > 0 it is a quarter turn when re is
\* 0.0 and minus a quarter turn when re is -0.0.
C11_PhaseIsArctangentOfRatio ==
    angle.kind = "called" =>
        /\ PhaseOffTheAxis(angle.of, angle.phase)
        /\ (IsZero(angle.of.re) /\ RSign(angle.of.im) > 0) =>
               angle.phase = IF IsNegZero(angle.of.re) THEN MinusQuarterTurn
                             ELSE QuarterTurn

\* a phase() call on a value in the left half plane, off both axes
C11_Witness ==
    /\ angle.kind = "called"
    /\ RSign(angle.of.re) < 0
    /\ RSign(angle.of.im) /= 0

\* C11 (as stated): the same, with a quarter turn for every re = 0, im > 0;
\* -0.0 is a zero too, and there the phase is minus a quarter turn
C11_QuarterTurnForEveryZeroRe ==
    angle.kind = "called" =>
        /\ PhaseOffTheAxis(angle.of, angle.phase)
        /\ (IsZero(angle.of.re) /\ RSign(angle.of.im) > 0) =>
               angle.phase = QuarterTurn

\* radius below 1e-9, said of a coefficient
Negligible(c) == BelowPow100(amplitude_sq(c), EpsilonDigits)

\* the term a coefficient stands for: radius * (cos, sin), and nothing for a
\* coefficient that is exactly zero
TrueTerm(pair, time) ==
    IF IsZero(amplitude_sq(pair[1])) THEN Cx(0, 0) ELSE term_of(pair, time)

\* the sum of the terms i+1..nth, none left out
RECURSIVE FullSum(_, _, _, _, _)
FullSum(pairs, time, nth, i, coord) ==
    IF i >= nth THEN coord
    ELSE FullSum(pairs, time, nth, i + 1, add(coord, TrueTerm(pairs[i + 1], time)))

\* |x| <= n * 1e-9
WithinDropped(x, n) ==
    IF n = 0 THEN IsZero(x) ELSE WithinPow10(RDiv(x, Int2R(n)), EpsilonDigits)

\* C12: when the loop of get_coordinate_for stops early at term i, every term
\* from i up to the precision has a radius below 1e-9, and the coordinate
\* returned is within (precision - i) * 1e-9 of the sum of all the first
\* precision terms, in each component.
C12_EarlyExitDropsOnlyNegligibleTerms ==
    (epicycle.state = "built" /\ answer.kind = "Ok") =>
        LET i == terms_used(epicycle.data, answer.precision, 0)
            full == FullSum(epicycle.data, answer.time, answer.precision, 0, Cx(0, 0))
        IN i < answer.precision =>
              /\ \A j \in (i + 1)..answer.precision : Negligible(epicycle.data[j][1])
              /\ WithinDropped(RSub(answer.x, full.re), answer.precision - i)
              /\ WithinDropped(RSub(answer.y, full.im), answer.precision - i)

\* a query for all four terms of a transformed path that added three of them
\* and stopped at the fourth
C12_Witness ==
    /\ epicycle.state = "built"
    /\ epicycle.via = "from_path"
    /\ Len(epicycle.data) = 4
    /\ answer.kind = "Ok"
    /\ answer.precision = 4
    /\ terms_used(epicycle.data, answer.precision, 0) = 3
    /\ ~IsZero(answer.x)

\* the steps 1, 2, 4, ... below n
RECURSIVE StepsBelow(_, _)
StepsBelow(n, step) == IF step >= n THEN <<>> ELSE <<step>> \o StepsBelow(n, 2 * step)

\* C13: on a power-of-two length n, fft ends after exactly log2(n) stages with
\* steps 1, 2, ..., n/2, no index it uses is n or more, every stage uses every
\* index 0..n-1 in exactly one butterfly, so each stage does n/2 butterflies,
\* and the buffer keeps its length.
C13_FftStagesAndIndices ==
    (transform.called /\ IsPowerOfTwo(transform.len)) =>
        LET n == transform.len
        IN /\ ~transform.panic
           /\ transform.out = -1
           /\ transform.stages = Log2(n)
           /\ transform.steps = StepsBelow(n, 1)
           /\ Len(transform.uses) = Log2(n)
           /\ \A k \in 1..Len(transform.uses) :
                 transform.uses[k] = [i \in 1..n |-> 1]
           /\ transform.pairs = Log2(n) * (n \div 2)
           /\ Len(data) = n

\* fft called on its own on eight samples: three stages
C13_Witness ==
    /\ transform.called
    /\ transform.len = 8
    /\ transform.stages = 3
    /\ applied = <<"fft">>
    /\ epicycle.state = "none"

\* C14: fft never returns normally on a length n >= 3 that is not a power of
\* two: some stage computes matched = n and the call aborts there, after the
\* buffer was permuted and at least one butterfly was written into it; on the
\* lengths 0, 1 and 2 it returns normally.
C14_FftAbortsOffPowersOfTwo ==
    transform.called =>
        /\ (transform.len >= 3 /\ ~IsPowerOfTwo(transform.len)) =>
              /\ transform.panic
              /\ transform.out = transform.len
              /\ transform.pairs >= 1
              /\ Len(data) = transform.len
              /\ data /= butterfly(input)
              /\ applied = <<"fft", "panic">>
        /\ transform.len \in {0, 1, 2} =>
              (~transform.panic /\ applied[Len(applied)] = "fft")

\* fft on twelve samples: two stages complete, the third aborts
C14_Witness ==
    /\ transform.called
    /\ transform.len = 12
    /\ transform.panic
    /\ transform.stages = 2
    /\ transform.steps = <<1, 2, 4>>

\* two pairs whose coefficients have exactly the same amplitude
Tied(p, q) == IsZero(RSub(Amp(p), Amp(q)))

\* C15: in a built model, of two coefficients with exactly equal amplitude the
\* one with the lower frequency index comes first; so when the precision of a
\* query cuts through a group of tied terms, the terms it adds are those of
\* the group with the lower indices.
C15_TiesInIndexOrder ==
    epicycle.state = "built" =>
        /\ \A i, j \in 1..Len(epicycle.data) :
              (i < j /\ Tied(epicycle.data[i], epicycle.data[j]))
                  => epicycle.data[i][2] < epicycle.data[j][2]
        /\ answer.kind = "Ok" =>
              LET used == terms_used(epicycle.data, answer.precision, 0)
              IN \A k \in 1..used, m \in (answer.precision + 1)..Len(epicycle.data) :
                    Tied(epicycle.data[k], epicycle.data[m])
                        => epicycle.data[k][2] < epicycle.data[m][2]

\* four equal coefficients given to new, all tied, asked for the first two
C15_Witness ==
    /\ epicycle.state = "built"
    /\ epicycle.via = "new"
    /\ Len(epicycle.data) >= 4
    /\ answer.kind = "Ok"
    /\ answer.precision = 2
    /\ terms_used(epicycle.data, 2, 0) = 2
    /\ Tied(epicycle.data[2], epicycle.data[3])
    /\ epicycle.data[1][2] = 0
    /\ epicycle.data[2][2] = 1

\* no component of a coefficient of the model is NaN
AllFinite(pairs) ==
    \A k \in 1..Len(pairs) : ~IsNaN(pairs[k][1].re) /\ ~IsNaN(pairs[k][1].im)

AllZero(pairs) ==
    \A k \in 1..Len(pairs) : IsZero(pairs[k][1].re) /\ IsZero(pairs[k][1].im)

\* C16: get_coordinate_for takes the phase of a coefficient only after its
\* radius passed the 1e-9 check, so the phase of a zero coefficient (0/0) is
\* never computed: on a model of finite coefficients every term added has a
\* defined phase and the coordinate returned has no NaN, and a model of
\* all-zero coefficients gives (0, 0) for every valid precision.
C16_NoPhaseOfZeroCoefficient ==
    (epicycle.state = "built" /\ answer.kind = "Ok" /\ AllFinite(epicycle.data)) =>
        LET used == terms_used(epicycle.data, answer.precision, 0)
        IN /\ \A k \in 1..used :
                 /\ ~below_epsilon(epicycle.data[k][1])
                 /\ phase(epicycle.data[k][1]).kind = "angle"
           /\ ~IsNaN(answer.x)
           /\ ~IsNaN(answer.y)
           /\ AllZero(epicycle.data) =>
                 (IsZero(answer.x) /\ IsZero(answer.y))

\* a query for both terms of a model made of two zero coefficients
C16_Witness ==
    /\ epicycle.state = "built"
    /\ Len(epicycle.data) = 2
    /\ AllZero(epicycle.data)
    /\ phase(epicycle.data[1][1]).kind = "nan"
    /\ answer.kind = "Ok"
    /\ answer.precision = 2

====
